---- MODULE Spec2Model ----
(***************************************************************************)
(* Model of the HomeWizard Energy client (homewizard_energy.py) and of the *)
(* payload decoders it uses (models.py).                                   *)
(*                                                                         *)
(* One client object talks to one device.  Every public coroutine of the   *)
(* client is one action; the device's answer (time-out, connection fault,  *)
(* HTTP status, content type, body) is the action's input.                 *)
(*                                                                         *)
(* Conventions:                                                            *)
(*   - a Python value that may be None is a sequence of length <= 1:       *)
(*     None is << >>, a present value v is << v >>;                        *)
(*   - a Python str whose characters matter (key, aad, timestamps) is a    *)
(*     sequence of one-character strings;                                  *)
(*   - a Python dict is a function from the keys it holds to optionals     *)
(*     (a key holding JSON null holds << >>).                              *)
(***************************************************************************)
EXTENDS Integers, Sequences, FiniteSets, TLC

VARIABLES
    session,        \* self._session: "none", "supplied" (by the caller) or "created"
    close_session,  \* self._close_session
    session_closed, \* whether the held ClientSession has been closed
    features,       \* self._features: None or the Features object
    pending,        \* the caller's call suspended at line 234: its name, arguments and
                    \* the features it began with; None when no call is suspended
    last,           \* the last public call: its arguments, answer, outcome, HTTP calls
    calls           \* the calls that the tasks of Concurrent have in flight

vars == <<session, close_session, session_closed, features, pending, last, calls>>

-----------------------------------------------------------------------------
(* Optional values and dicts *)

None == << >>

Some(v) == << v >>

\* dict.get(key): the value held, None for a missing key
Get(d, k) == IF k \in DOMAIN d THEN d[k] ELSE None

EmptyDict == [k \in {} |-> None]


-----------------------------------------------------------------------------
(* Bounds of the model *)

\* number of entries of the "external" list of a data payload
MaxExternal == 2

\* number of tasks that call the client concurrently
MaxTasks == 2

-----------------------------------------------------------------------------
(* Program constants *)

StatusForbidden == 403

StatusOk == 200

KeyLen == 32

AadLen == 34

AadHintLen == 32

\* const.py is not among the sources; the value is the one the device API uses
SUPPORTED_API_VERSION == "v1"

METH_GET == "GET"

METH_PUT == "PUT"

METH_DELETE == "DELETE"

\* string.hexdigits
HexDigits == {"0", "1", "2", "3", "4", "5", "6", "7", "8", "9",
              "a", "b", "c", "d", "e", "f", "A", "B", "C", "D", "E", "F"}

-----------------------------------------------------------------------------
(* Outcomes of a call *)

Return(v) == [kind |-> "return", value |-> v]

\* an exception of class exc with message msg; info is what else it carries
\* (the HTTP status, the hint), None when nothing
RaiseWith(exc, msg, info) == [kind |-> "raise", exc |-> exc, msg |-> msg, info |-> info]

Raise(exc, msg) == RaiseWith(exc, msg, None)

IsRaise(o) == o.kind = "raise"

Raises(o, exc) == o.kind = "raise" /\ o.exc = exc

-----------------------------------------------------------------------------
(* The device's answers *)

Statuses == {200, 403, 500}

RespTimeout == [t |-> "timeout"]

RespClientError == [t |-> "clienterror"]

\* the answer of a ClientSession that has been closed: aiohttp refuses the call
RespClosed == [t |-> "closed"]

Http(status, json, body) == [t |-> "http", status |-> status, json |-> json, body |-> body]

\* the answers to a request whose 200/JSON body is one of `payloads`
Responses(payloads) ==
    {RespTimeout, RespClientError}
        \cup {Http(s, TRUE, EmptyDict) : s \in Statuses \ {200}}
        \cup {Http(200, FALSE, EmptyDict)}
        \cup {Http(200, TRUE, b) : b \in payloads}

\* what the call decoded from the body: a dict (resp.json()) or a str (resp.text())
JsonValue(d) == [type |-> "dict", d |-> d]

TextValue == [type |-> "str"]

-----------------------------------------------------------------------------
(* Feature resolver.  features.py is not among the sources: Features is     *)
(* modelled from the specification (a static lookup on product type and     *)
(* firmware version, all-false for an unknown product, capability absent    *)
(* for an unparsable version).                                              *)

ProductTypes == {"HWE-P1", "HWE-SKT", "HWE-WTR", "XYZ-1"}

FirmwareVersions == {"2.11", "3.01", "4.19", "beta"}

\* the dot-separated numeric components, None when the string is not a version
ParseVersion(v) ==
    IF v = None THEN None
    ELSE CASE v[1] = "2.11" -> Some(<<2, 11>>)
           [] v[1] = "3.01" -> Some(<<3, 1>>)
           [] v[1] = "4.19" -> Some(<<4, 19>>)
           [] OTHER -> None

\* component-wise comparison; an unparsable version has no capability
VersionAtLeast(v, major, minor) ==
    LET p == ParseVersion(v) IN
    /\ p # None
    /\ \/ p[1][1] > major
       \/ p[1][1] = major /\ p[1][2] >= minor

Features(product_type, firmware_version) ==
    [has_state |-> product_type = Some("HWE-SKT"),
     has_system |-> /\ product_type \in {Some("HWE-SKT"), Some("HWE-P1"), Some("HWE-WTR")}
                    /\ VersionAtLeast(firmware_version, 3, 0),
     has_identify |-> /\ product_type \in {Some("HWE-SKT"), Some("HWE-P1")}
                      /\ VersionAtLeast(firmware_version, 3, 0),
     has_decryption |-> /\ product_type = Some("HWE-P1")
                        /\ VersionAtLeast(firmware_version, 4, 19)]

-----------------------------------------------------------------------------
(* models.py: Device.from_dict *)

DeviceFromDict(d) ==
    [product_name |-> Get(d, "product_name"),
     product_type |-> Get(d, "product_type"),
     serial |-> Get(d, "serial"),
     api_version |-> Get(d, "api_version"),
     firmware_version |-> Get(d, "firmware_version")]

\* bodies the device may answer GET api with
DevicePayloads ==
    {[k \in ks |-> IF k = "product_type" THEN Some(pt)
                   ELSE IF k = "firmware_version" THEN Some(fw)
                   ELSE Some(av)] :
        ks \in {{"product_type", "firmware_version", "api_version"},
                {"product_type", "firmware_version"},
                {"api_version"}},
        pt \in ProductTypes, fw \in FirmwareVersions, av \in {"v1", "v2"}}

-----------------------------------------------------------------------------
(* homewizard_energy.py: request *)

\* what a call, or a part of one, leaves behind: its outcome and the calls it
\* made of self._session.request
Did(outcome, sent) == [outcome |-> outcome, sent |-> sent]

\* the same with self._features afterwards
Step(outcome, sent, feat) == [outcome |-> outcome, sent |-> sent, features |-> feat]

HttpCall(method, path, data) == [method |-> method, path |-> path, data |-> data]

\* StatusError without the 403 case
StatusErrorGeneric(status) ==
    IF status # StatusOk
    THEN Some(RaiseWith("RequestError", "API request error", Some(status)))
    ELSE None

\* lines 250-258: classification of the HTTP status
StatusError(status) ==
    IF status = StatusForbidden
    THEN Some(Raise("DisabledError", "API disabled. API must be enabled in HomeWizard Energy app"))
    ELSE IF status # StatusOk
    THEN Some(RaiseWith("RequestError", "API request error", Some(status)))
    ELSE None

\* lines 260-264: the body by content type
Body(resp) == IF resp.json THEN JsonValue(resp.body) ELSE TextValue

\* lines 241-244: the deadline expired
TimeoutError ==
    Raise("RequestError", "Timeout occurred while connecting to the HomeWizard Energy device")

\* lines 245-248: a connection-level fault
TransportError ==
    Raise("RequestError", "Error occurred while communicating with the HomeWizard Energy device")

\* lines 250-264: the outcome of an answer that has an HTTP status
Answered(resp, err) == IF err # None THEN err[1] ELSE Return(Body(resp))

\* request() calling the session a second time after a deadline that expired
request_retrying(path, method, data, resp) ==
    Did(CASE resp.t = "closed" -> Raise("RuntimeError", "Session is closed")
          [] resp.t = "timeout" -> TimeoutError
          [] resp.t = "clienterror" -> TransportError
          [] OTHER -> Answered(resp, StatusError(resp.status)),
        IF resp.t = "timeout"
        THEN << HttpCall(method, path, data), HttpCall(method, path, data) >>
        ELSE << HttpCall(method, path, data) >>)

\* lines 219-264: request(path, method, data) answered by resp: the outcome, and
\* the call made of self._session.request.  The RuntimeError with which a closed
\* ClientSession refuses the call is none of the exceptions caught.
request(path, method, data, resp) ==
    Did(CASE resp.t = "closed" -> Raise("RuntimeError", "Session is closed")
          [] resp.t = "timeout" -> TimeoutError
          [] resp.t = "clienterror" -> TransportError
          [] OTHER -> Answered(resp, StatusError(resp.status)),
        << HttpCall(method, path, data) >>)

\* SessionAfter with a session created by every request()
SessionAfterAnew(sent) == IF sent # << >> THEN "created" ELSE session

\* lines 223-225: the session after a call; request() ran when a call was made
SessionAfter(sent) == IF sent # << >> /\ session = "none" THEN "created" ELSE session

CloseSessionAfter(sent) == IF sent # << >> /\ session = "none" THEN TRUE ELSE close_session

\* X.from_dict(response) is evaluated once request() returned o; data.get is
\* called on the body, which a str does not have
FromDictOf(o, decoded) ==
    IF IsRaise(o) THEN o
    ELSE IF o.value.type = "dict" THEN decoded
    ELSE Raise("AttributeError", "'str' object has no attribute 'get'")

\* the dict that request() returned, for the decoder
DictIn(o) == IF ~IsRaise(o) /\ o.value.type = "dict" THEN o.value.d ELSE EmptyDict

\* `return True` once the request returned
TrueIfOk(o) == IF IsRaise(o) THEN o ELSE Return(TRUE)

\* await self.request(...); return True
Sent(r) == Did(TrueIfOk(r.outcome), r.sent)

-----------------------------------------------------------------------------
(* homewizard_energy.py: device and features *)

\* line 67, with a missing api_version accepted
ApiVersionSupportedOrMissing(device) ==
    device.api_version \in {None, Some(SUPPORTED_API_VERSION)}

\* line 67
ApiVersionSupported(device) == device.api_version = Some(SUPPORTED_API_VERSION)

\* Checked with the version checked first: the Features of a device with an
\* unsupported version are not stored
CheckedFirst(device, sent) ==
    IF ~ApiVersionSupported(device)
    THEN Step(Raise("UnsupportedError", "Unsupported API version, expected version 'v1'"),
              sent, features)
    ELSE Step(Return(device), sent, Some(Features(device.product_type, device.firmware_version)))

\* lines 65-72: the Features are stored, then the version is checked
Checked(device, sent) ==
    Step(IF ~ApiVersionSupported(device)
         THEN Raise("UnsupportedError", "Unsupported API version, expected version 'v1'")
         ELSE Return(device),
         sent, Some(Features(device.product_type, device.firmware_version)))

\* DeviceOf forgetting the features when the fetch fails
DeviceOfForgetting(r) ==
    IF IsRaise(FromDictOf(r.outcome, r.outcome))
    THEN Step(FromDictOf(r.outcome, r.outcome), r.sent, None)
    ELSE Checked(DeviceFromDict(DictIn(r.outcome)), r.sent)

\* lines 63-72, for what request() did
DeviceOf(r) ==
    IF IsRaise(FromDictOf(r.outcome, r.outcome))
    THEN Step(FromDictOf(r.outcome, r.outcome), r.sent, features)
    ELSE Checked(DeviceFromDict(DictIn(r.outcome)), r.sent)

\* lines 60-72
device(resp) == DeviceOf(request("api", METH_GET, None, resp))

\* line 55: `self.features is None` tests the bound method features, which is
\* never None
FeaturesIsNone == FALSE

\* line 58, after the device() of line 56 did f
Fetched(f) == IF IsRaise(f.outcome) THEN f ELSE [f EXCEPT !.outcome = Return(f.features)]

\* lines 53-58; f is self._features when features() is called, dresp answers
\* the device fetch of line 56
features_(f, dresp) ==
    IF FeaturesIsNone THEN Fetched(device(dresp))
    ELSE Step(Return(f), << >>, f)

\* HasCapability without the test: every capability taken to be there
HasCapabilityAlways(f, cap) == TRUE

\* lines 82, 97, 126, 144, 163, 206: features.<cap> of a Features object
HasCapability(f, cap) == f[cap]

\* features.<cap> on what features() returned: None has no attributes
Attr(f, cap) ==
    IF f = None
    THEN Raise("AttributeError", "'NoneType' object has no attribute")
    ELSE Return(HasCapability(f[1], cap))

\* the call after features() did f and features.<cap> gave has: refused is the
\* outcome without the capability, rest what the call does with it
GateOn(f, has, refused, rest) ==
    IF IsRaise(has) THEN [f EXCEPT !.outcome = has]
    ELSE IF ~has.value THEN [f EXCEPT !.outcome = refused]
    ELSE Step(rest.outcome, f.sent \o rest.sent, f.features)

\* a call that awaits features(), which did f, and then needs capability cap
Gate(f, cap, refused, rest) ==
    IF IsRaise(f.outcome) THEN f
    ELSE GateOn(f, Attr(f.outcome.value, cap), refused, rest)

\* a call that does not look at the features
Ungated(r) == Step(r.outcome, r.sent, features)

-----------------------------------------------------------------------------
(* datetime.strptime(s, "%y%m%d%H%M%S"), as models.py line 116 calls it.     *)
(* The format compiles to the regular expression                            *)
(*   y: \d\d   m: 1[0-2]|0[1-9]|[1-9]   d: 3[0-1]|[1-2]\d|0[1-9]|[1-9]| [1-9] *)
(*   H: 2[0-3]|[0-1]\d|\d   M: [0-5]\d|\d   S: 6[0-1]|[0-5]\d|\d             *)
(* matched at the start of s with backtracking, alternatives in order; the   *)
(* match must then end where s ends, and the fields must make a date.        *)

\* the digits of a class [0-9] of the pattern
DigitChars == <<"0", "1", "2", "3", "4", "5", "6", "7", "8", "9">>

\* The pattern is a str: \d matches every Unicode decimal digit (category Nd),
\* the classes [0-9], [1-9], ... match ASCII digits only.  A character outside
\* ASCII is written by its code point.  The digits are the ASCII digits and the
\* other blocks of Nd (Unicode 14.0), each DIGIT ZERO..NINE in order.
DecimalDigits ==
    << DigitChars,
       <<"U+0660", "U+0661", "U+0662", "U+0663", "U+0664",
         "U+0665", "U+0666", "U+0667", "U+0668", "U+0669">>,
       <<"U+06F0", "U+06F1", "U+06F2", "U+06F3", "U+06F4",
         "U+06F5", "U+06F6", "U+06F7", "U+06F8", "U+06F9">>,
       <<"U+07C0", "U+07C1", "U+07C2", "U+07C3", "U+07C4",
         "U+07C5", "U+07C6", "U+07C7", "U+07C8", "U+07C9">>,
       <<"U+0966", "U+0967", "U+0968", "U+0969", "U+096A",
         "U+096B", "U+096C", "U+096D", "U+096E", "U+096F">>,
       <<"U+09E6", "U+09E7", "U+09E8", "U+09E9", "U+09EA",
         "U+09EB", "U+09EC", "U+09ED", "U+09EE", "U+09EF">>,
       <<"U+0A66", "U+0A67", "U+0A68", "U+0A69", "U+0A6A",
         "U+0A6B", "U+0A6C", "U+0A6D", "U+0A6E", "U+0A6F">>,
       <<"U+0AE6", "U+0AE7", "U+0AE8", "U+0AE9", "U+0AEA",
         "U+0AEB", "U+0AEC", "U+0AED", "U+0AEE", "U+0AEF">>,
       <<"U+0B66", "U+0B67", "U+0B68", "U+0B69", "U+0B6A",
         "U+0B6B", "U+0B6C", "U+0B6D", "U+0B6E", "U+0B6F">>,
       <<"U+0BE6", "U+0BE7", "U+0BE8", "U+0BE9", "U+0BEA",
         "U+0BEB", "U+0BEC", "U+0BED", "U+0BEE", "U+0BEF">>,
       <<"U+0C66", "U+0C67", "U+0C68", "U+0C69", "U+0C6A",
         "U+0C6B", "U+0C6C", "U+0C6D", "U+0C6E", "U+0C6F">>,
       <<"U+0CE6", "U+0CE7", "U+0CE8", "U+0CE9", "U+0CEA",
         "U+0CEB", "U+0CEC", "U+0CED", "U+0CEE", "U+0CEF">>,
       <<"U+0D66", "U+0D67", "U+0D68", "U+0D69", "U+0D6A",
         "U+0D6B", "U+0D6C", "U+0D6D", "U+0D6E", "U+0D6F">>,
       <<"U+0DE6", "U+0DE7", "U+0DE8", "U+0DE9", "U+0DEA",
         "U+0DEB", "U+0DEC", "U+0DED", "U+0DEE", "U+0DEF">>,
       <<"U+0E50", "U+0E51", "U+0E52", "U+0E53", "U+0E54",
         "U+0E55", "U+0E56", "U+0E57", "U+0E58", "U+0E59">>,
       <<"U+0ED0", "U+0ED1", "U+0ED2", "U+0ED3", "U+0ED4",
         "U+0ED5", "U+0ED6", "U+0ED7", "U+0ED8", "U+0ED9">>,
       <<"U+0F20", "U+0F21", "U+0F22", "U+0F23", "U+0F24",
         "U+0F25", "U+0F26", "U+0F27", "U+0F28", "U+0F29">>,
       <<"U+1040", "U+1041", "U+1042", "U+1043", "U+1044",
         "U+1045", "U+1046", "U+1047", "U+1048", "U+1049">>,
       <<"U+1090", "U+1091", "U+1092", "U+1093", "U+1094",
         "U+1095", "U+1096", "U+1097", "U+1098", "U+1099">>,
       <<"U+17E0", "U+17E1", "U+17E2", "U+17E3", "U+17E4",
         "U+17E5", "U+17E6", "U+17E7", "U+17E8", "U+17E9">>,
       <<"U+1810", "U+1811", "U+1812", "U+1813", "U+1814",
         "U+1815", "U+1816", "U+1817", "U+1818", "U+1819">>,
       <<"U+1946", "U+1947", "U+1948", "U+1949", "U+194A",
         "U+194B", "U+194C", "U+194D", "U+194E", "U+194F">>,
       <<"U+19D0", "U+19D1", "U+19D2", "U+19D3", "U+19D4",
         "U+19D5", "U+19D6", "U+19D7", "U+19D8", "U+19D9">>,
       <<"U+1A80", "U+1A81", "U+1A82", "U+1A83", "U+1A84",
         "U+1A85", "U+1A86", "U+1A87", "U+1A88", "U+1A89">>,
       <<"U+1A90", "U+1A91", "U+1A92", "U+1A93", "U+1A94",
         "U+1A95", "U+1A96", "U+1A97", "U+1A98", "U+1A99">>,
       <<"U+1B50", "U+1B51", "U+1B52", "U+1B53", "U+1B54",
         "U+1B55", "U+1B56", "U+1B57", "U+1B58", "U+1B59">>,
       <<"U+1BB0", "U+1BB1", "U+1BB2", "U+1BB3", "U+1BB4",
         "U+1BB5", "U+1BB6", "U+1BB7", "U+1BB8", "U+1BB9">>,
       <<"U+1C40", "U+1C41", "U+1C42", "U+1C43", "U+1C44",
         "U+1C45", "U+1C46", "U+1C47", "U+1C48", "U+1C49">>,
       <<"U+1C50", "U+1C51", "U+1C52", "U+1C53", "U+1C54",
         "U+1C55", "U+1C56", "U+1C57", "U+1C58", "U+1C59">>,
       <<"U+A620", "U+A621", "U+A622", "U+A623", "U+A624",
         "U+A625", "U+A626", "U+A627", "U+A628", "U+A629">>,
       <<"U+A8D0", "U+A8D1", "U+A8D2", "U+A8D3", "U+A8D4",
         "U+A8D5", "U+A8D6", "U+A8D7", "U+A8D8", "U+A8D9">>,
       <<"U+A900", "U+A901", "U+A902", "U+A903", "U+A904",
         "U+A905", "U+A906", "U+A907", "U+A908", "U+A909">>,
       <<"U+A9D0", "U+A9D1", "U+A9D2", "U+A9D3", "U+A9D4",
         "U+A9D5", "U+A9D6", "U+A9D7", "U+A9D8", "U+A9D9">>,
       <<"U+A9F0", "U+A9F1", "U+A9F2", "U+A9F3", "U+A9F4",
         "U+A9F5", "U+A9F6", "U+A9F7", "U+A9F8", "U+A9F9">>,
       <<"U+AA50", "U+AA51", "U+AA52", "U+AA53", "U+AA54",
         "U+AA55", "U+AA56", "U+AA57", "U+AA58", "U+AA59">>,
       <<"U+ABF0", "U+ABF1", "U+ABF2", "U+ABF3", "U+ABF4",
         "U+ABF5", "U+ABF6", "U+ABF7", "U+ABF8", "U+ABF9">>,
       <<"U+FF10", "U+FF11", "U+FF12", "U+FF13", "U+FF14",
         "U+FF15", "U+FF16", "U+FF17", "U+FF18", "U+FF19">>,
       <<"U+104A0", "U+104A1", "U+104A2", "U+104A3", "U+104A4",
         "U+104A5", "U+104A6", "U+104A7", "U+104A8", "U+104A9">>,
       <<"U+10D30", "U+10D31", "U+10D32", "U+10D33", "U+10D34",
         "U+10D35", "U+10D36", "U+10D37", "U+10D38", "U+10D39">>,
       <<"U+11066", "U+11067", "U+11068", "U+11069", "U+1106A",
         "U+1106B", "U+1106C", "U+1106D", "U+1106E", "U+1106F">>,
       <<"U+110F0", "U+110F1", "U+110F2", "U+110F3", "U+110F4",
         "U+110F5", "U+110F6", "U+110F7", "U+110F8", "U+110F9">>,
       <<"U+11136", "U+11137", "U+11138", "U+11139", "U+1113A",
         "U+1113B", "U+1113C", "U+1113D", "U+1113E", "U+1113F">>,
       <<"U+111D0", "U+111D1", "U+111D2", "U+111D3", "U+111D4",
         "U+111D5", "U+111D6", "U+111D7", "U+111D8", "U+111D9">>,
       <<"U+112F0", "U+112F1", "U+112F2", "U+112F3", "U+112F4",
         "U+112F5", "U+112F6", "U+112F7", "U+112F8", "U+112F9">>,
       <<"U+11450", "U+11451", "U+11452", "U+11453", "U+11454",
         "U+11455", "U+11456", "U+11457", "U+11458", "U+11459">>,
       <<"U+114D0", "U+114D1", "U+114D2", "U+114D3", "U+114D4",
         "U+114D5", "U+114D6", "U+114D7", "U+114D8", "U+114D9">>,
       <<"U+11650", "U+11651", "U+11652", "U+11653", "U+11654",
         "U+11655", "U+11656", "U+11657", "U+11658", "U+11659">>,
       <<"U+116C0", "U+116C1", "U+116C2", "U+116C3", "U+116C4",
         "U+116C5", "U+116C6", "U+116C7", "U+116C8", "U+116C9">>,
       <<"U+11730", "U+11731", "U+11732", "U+11733", "U+11734",
         "U+11735", "U+11736", "U+11737", "U+11738", "U+11739">>,
       <<"U+118E0", "U+118E1", "U+118E2", "U+118E3", "U+118E4",
         "U+118E5", "U+118E6", "U+118E7", "U+118E8", "U+118E9">>,
       <<"U+11950", "U+11951", "U+11952", "U+11953", "U+11954",
         "U+11955", "U+11956", "U+11957", "U+11958", "U+11959">>,
       <<"U+11C50", "U+11C51", "U+11C52", "U+11C53", "U+11C54",
         "U+11C55", "U+11C56", "U+11C57", "U+11C58", "U+11C59">>,
       <<"U+11D50", "U+11D51", "U+11D52", "U+11D53", "U+11D54",
         "U+11D55", "U+11D56", "U+11D57", "U+11D58", "U+11D59">>,
       <<"U+11DA0", "U+11DA1", "U+11DA2", "U+11DA3", "U+11DA4",
         "U+11DA5", "U+11DA6", "U+11DA7", "U+11DA8", "U+11DA9">>,
       <<"U+16A60", "U+16A61", "U+16A62", "U+16A63", "U+16A64",
         "U+16A65", "U+16A66", "U+16A67", "U+16A68", "U+16A69">>,
       <<"U+16AC0", "U+16AC1", "U+16AC2", "U+16AC3", "U+16AC4",
         "U+16AC5", "U+16AC6", "U+16AC7", "U+16AC8", "U+16AC9">>,
       <<"U+16B50", "U+16B51", "U+16B52", "U+16B53", "U+16B54",
         "U+16B55", "U+16B56", "U+16B57", "U+16B58", "U+16B59">>,
       <<"U+1D7CE", "U+1D7CF", "U+1D7D0", "U+1D7D1", "U+1D7D2",
         "U+1D7D3", "U+1D7D4", "U+1D7D5", "U+1D7D6", "U+1D7D7">>,
       <<"U+1D7D8", "U+1D7D9", "U+1D7DA", "U+1D7DB", "U+1D7DC",
         "U+1D7DD", "U+1D7DE", "U+1D7DF", "U+1D7E0", "U+1D7E1">>,
       <<"U+1D7E2", "U+1D7E3", "U+1D7E4", "U+1D7E5", "U+1D7E6",
         "U+1D7E7", "U+1D7E8", "U+1D7E9", "U+1D7EA", "U+1D7EB">>,
       <<"U+1D7EC", "U+1D7ED", "U+1D7EE", "U+1D7EF", "U+1D7F0",
         "U+1D7F1", "U+1D7F2", "U+1D7F3", "U+1D7F4", "U+1D7F5">>,
       <<"U+1D7F6", "U+1D7F7", "U+1D7F8", "U+1D7F9", "U+1D7FA",
         "U+1D7FB", "U+1D7FC", "U+1D7FD", "U+1D7FE", "U+1D7FF">>,
       <<"U+1E140", "U+1E141", "U+1E142", "U+1E143", "U+1E144",
         "U+1E145", "U+1E146", "U+1E147", "U+1E148", "U+1E149">>,
       <<"U+1E2F0", "U+1E2F1", "U+1E2F2", "U+1E2F3", "U+1E2F4",
         "U+1E2F5", "U+1E2F6", "U+1E2F7", "U+1E2F8", "U+1E2F9">>,
       <<"U+1E950", "U+1E951", "U+1E952", "U+1E953", "U+1E954",
         "U+1E955", "U+1E956", "U+1E957", "U+1E958", "U+1E959">>,
       <<"U+1FBF0", "U+1FBF1", "U+1FBF2", "U+1FBF3", "U+1FBF4",
         "U+1FBF5", "U+1FBF6", "U+1FBF7", "U+1FBF8", "U+1FBF9">> >>

\* c matches \d
IsDigit(c) == \E b \in DOMAIN DecimalDigits : \E i \in 1..10 : DecimalDigits[b][i] = c

\* int(c) of a decimal digit
DigitVal(c) ==
    (CHOOSE i \in 1..10 : \E b \in DOMAIN DecimalDigits : DecimalDigits[b][i] = c) - 1

\* c matches [0-9]
IsAsciiDigit(c) == \E i \in 1..10 : DigitChars[i] = c

\* the character at p, "" past the end
At(s, p) == IF p \in 1..Len(s) THEN s[p] ELSE ""

\* c matches the class [lo-hi]
Dig(c, lo, hi) == IsAsciiDigit(c) /\ DigitVal(c) \in lo..hi

\* the two-character alternatives of field f (1: y .. 6: S) match a b
Two(f, a, b) ==
    CASE f = 1 -> IsDigit(a) /\ IsDigit(b)
      [] f = 2 -> (a = "1" /\ Dig(b, 0, 2)) \/ (a = "0" /\ Dig(b, 1, 9))
      [] f = 3 -> \/ a = "3" /\ Dig(b, 0, 1)
                  \/ Dig(a, 1, 2) /\ IsDigit(b)
                  \/ a = "0" /\ Dig(b, 1, 9)
      [] f = 4 -> (a = "2" /\ Dig(b, 0, 3)) \/ (Dig(a, 0, 1) /\ IsDigit(b))
      [] f = 5 -> Dig(a, 0, 5) /\ IsDigit(b)
      [] OTHER -> (a = "6" /\ Dig(b, 0, 1)) \/ (Dig(a, 0, 5) /\ IsDigit(b))

\* the one-character alternative of field f matches a
One(f, a) ==
    CASE f = 1 -> FALSE
      [] f \in {2, 3} -> Dig(a, 1, 9)
      [] OTHER -> IsDigit(a)

\* the last alternative of %d: a space and a digit
SpaceDay(f, a, b) == f = 3 /\ a = " " /\ Dig(b, 1, 9)

\* a match of a field with value v, followed by the match m of the fields after it
Prepend(v, m) == Some([vals |-> <<v>> \o m[1].vals, end |-> m[1].end])

\* the first that matched of: the two-character alternatives, the one-character
\* alternative, the space-and-digit alternative of a field reading a b
FirstOf(a, b, two, one, spc) ==
    IF two # None THEN Prepend(10 * DigitVal(a) + DigitVal(b), two)
    ELSE IF one # None THEN Prepend(DigitVal(a), one)
    ELSE IF spc # None THEN Prepend(DigitVal(b), spc)
    ELSE None

\* the match of field f reading a b at position p, followed by the fields after
\* it, of which rest[q] is the match from q: None, or the field values and the
\* position after the match
MatchField(f, a, b, p, rest) ==
    FirstOf(a, b,
            IF Two(f, a, b) THEN rest[p + 2] ELSE None,
            IF One(f, a) THEN rest[p + 1] ELSE None,
            IF SpaceDay(f, a, b) THEN rest[p + 2] ELSE None)

\* the matches of fields f..6 from every position of s (backtracking tries the
\* fields after f from a position with the same result each time)
RECURSIVE MatchFrom(_, _)
MatchFrom(s, f) ==
    IF f > 6 THEN [p \in 1..(Len(s) + 3) |-> Some([vals |-> << >>, end |-> p])]
    ELSE LET rest == MatchFrom(s, f + 1)
         IN  [p \in 1..(Len(s) + 3) |->
                 IF p > Len(s) THEN None
                 ELSE MatchField(f, At(s, p), At(s, p + 1), p, rest)]

\* format_regex.match(s)
Match(s) == MatchFrom(s, 1)[1]

\* %y: 69-99 are 1969-1999, 0-68 are 2000-2068
FullYear(y) == IF y <= 68 THEN 2000 + y ELSE 1900 + y

IsLeap(year) == year % 4 = 0 /\ (year % 100 # 0 \/ year % 400 = 0)

DaysInMonth(year, month) ==
    IF month = 2 THEN (IF IsLeap(year) THEN 29 ELSE 28)
    ELSE IF month \in {4, 6, 9, 11} THEN 30 ELSE 31

\* the datetime of the field values v, when they make a date
MakeDate(v, year) ==
    IF v[3] > DaysInMonth(year, v[2])
    THEN Raise("ValueError", "day is out of range for month")
    ELSE IF v[6] > 59 THEN Raise("ValueError", "second must be in 0..59")
    ELSE Return([year |-> year, month |-> v[2], day |-> v[3],
                 hour |-> v[4], minute |-> v[5], second |-> v[6]])

\* the result for the match m of a str of length n
Matched(m, n) ==
    IF m = None THEN Raise("ValueError", "time data does not match format")
    ELSE IF m[1].end # n + 1 THEN Raise("ValueError", "unconverted data remains")
    ELSE MakeDate(m[1].vals, FullYear(m[1].vals[1]))

strptime(s) == Matched(Match(s), Len(s))

-----------------------------------------------------------------------------
(* models.py: Data and ExternalDevice *)

\* a JSON value that is a str, or an int given by its decimal digits
JStr(chars) == [type |-> "str", chars |-> chars]

JInt(digits) == [type |-> "int", chars |-> digits]

\* str(timestamp)
Str(v) == v.chars

\* the outcome o with the value it returns made a present value
OrSome(o) == IF IsRaise(o) THEN o ELSE Return(Some(o.value))

\* lines 104-116; timestamp is None or a JSON value
convert_timestamp_to_datetime(timestamp) ==
    IF timestamp = None THEN Return(None)
    ELSE OrSome(strptime(Str(timestamp[1])))

\* the JSON values of the "type" of an external device: a str, or a list
JText(text) == [type |-> "str", text |-> text]

JList == [type |-> "list"]

\* lines 220-226: the subscript of the dict literal, whose keys are the five
\* names.  The key is hashed before it is looked up: a list is unhashable.
Lookup(value) ==
    IF value # None /\ value[1].type = "list"
    THEN Raise("TypeError", "unhashable type: 'list'")
    ELSE IF value # None /\ value[1].type = "str"
                         /\ value[1].text \in {"gas_meter", "heat_meter", "warm_water_meter",
                                                "water_meter", "inlet_heat_meter"}
    THEN Return(CASE value[1].text = "gas_meter" -> "GAS_METER"
                  [] value[1].text = "heat_meter" -> "HEAT_METER"
                  [] value[1].text = "warm_water_meter" -> "WARM_WATER_METER"
                  [] value[1].text = "water_meter" -> "WATER_METER"
                  [] OTHER -> "INLET_HEAT_METER")
    ELSE Raise("KeyError", "")

\* lines 227-228: KeyError, and no other exception, gives UNKNOWN
ExceptKeyError(o) == IF Raises(o, "KeyError") THEN Return("UNKNOWN") ELSE o

\* lines 216-228; value is None or a JSON value
from_string(value) == ExceptKeyError(Lookup(value))

\* lines 245-251: the record, given the outcomes mt of from_string and ts of
\* decoding the timestamp, which are evaluated in this order
ExternalDevice(d, mt, ts) ==
    IF IsRaise(mt) THEN mt
    ELSE IF IsRaise(ts) THEN ts
    ELSE Return([unique_id |-> Get(d, "unique_id"),
                 meter_type |-> mt.value,
                 value |-> Get(d, "value"),
                 unit |-> Get(d, "unit"),
                 timestamp |-> ts.value])

\* lines 236-251
ExternalDeviceFromDict(d) ==
    ExternalDevice(d, from_string(Get(d, "type")),
                   convert_timestamp_to_datetime(Get(d, "timestamp")))

\* line 128: devices.append(e), for the outcomes of e and of the entries after it
Appended(e, rest) ==
    IF IsRaise(e) THEN e
    ELSE IF IsRaise(rest) THEN rest
    ELSE Return(<<e.value>> \o rest.value)

\* lines 125-130: the list of the decoded entries, or the first failure
RECURSIVE DecodeEntries(_)
DecodeEntries(es) ==
    IF es = << >> THEN Return(<< >>)
    ELSE Appended(ExternalDeviceFromDict(Head(es)), DecodeEntries(Tail(es)))

\* lines 118-130; external_devices is None or a list of dicts
get_external_devices(external_devices) ==
    IF external_devices = None THEN Return(None)
    ELSE OrSome(DecodeEntries(external_devices[1]))

\* lines 143-190: the record, given the outcomes of decoding the two timestamps
\* and the external list.  Of the fields that from_dict copies with data.get alone
\* the model keeps wifi_ssid, unique_meter_id, montly_power_peak_w, total_gas_m3
\* and gas_unique_id; the others are copied the same way.
Data(d, peak, gas, ext) ==
    IF IsRaise(peak) THEN peak
    ELSE IF IsRaise(gas) THEN gas
    ELSE IF IsRaise(ext) THEN ext
    ELSE Return([wifi_ssid |-> Get(d, "wifi_ssid"),
                 unique_meter_id |-> Get(d, "unique_id"),
                 montly_power_peak_w |-> Get(d, "montly_power_peak_w"),
                 montly_power_peak_timestamp |-> peak.value,
                 total_gas_m3 |-> Get(d, "total_gas_m3"),
                 gas_timestamp |-> gas.value,
                 gas_unique_id |-> Get(d, "gas_unique_id"),
                 external_devices |-> ext.value])

\* lines 132-190
DataFromDict(d) ==
    Data(d,
         convert_timestamp_to_datetime(Get(d, "montly_power_peak_timestamp")),
         convert_timestamp_to_datetime(Get(d, "gas_timestamp")),
         get_external_devices(Get(d, "external")))

\* lines 76-77, for what request() did
DataOf(r) == Did(FromDictOf(r.outcome, DataFromDict(DictIn(r.outcome))), r.sent)

\* homewizard_energy.py lines 74-77
data(resp) == Ungated(DataOf(request("api/v1/data", METH_GET, None, resp)))

-----------------------------------------------------------------------------
(* models.py: State, System, Decryption *)

StateFromDict(d) ==
    [power_on |-> Get(d, "power_on"),
     switch_lock |-> Get(d, "switch_lock"),
     brightness |-> Get(d, "brightness")]

SystemFromDict(d) == [cloud_enabled |-> Get(d, "cloud_enabled")]

DecryptionFromDict(d) == [key_set |-> Get(d, "key"), aad_set |-> Get(d, "aad")]

\* the dict holding the keys whose argument is not None
DictOf(args) == [k \in {a \in DOMAIN args : args[a] # None} |-> args[k][1]]

-----------------------------------------------------------------------------
(* homewizard_energy.py: the switch state *)

\* lines 85-86, for what request() did
StateOf(r) == Did(FromDictOf(r.outcome, Return(StateFromDict(DictIn(r.outcome)))), r.sent)

\* state() with a result other than None for a device without the capability
state_refusing(f, dresp, resp) ==
    Gate(features_(f, dresp), "has_state",
         Raise("UnsupportedError", "State is not supported with this device"),
         StateOf(request("api/v1/state", METH_GET, None, resp)))

\* lines 79-86
state(f, dresp, resp) ==
    Gate(features_(f, dresp), "has_state", Return(None),
         StateOf(request("api/v1/state", METH_GET, None, resp)))

\* NoFields without the test: an empty dict is sent like any other
NoFieldsNever(d) == FALSE

\* line 107 (and 132, 192): `if not state`
NoFields(d) == DOMAIN d = {}

\* lines 107-112 (and 132-137, 192-197): the dict is sent unless it is empty
Put(path, body, resp) ==
    IF NoFields(body) THEN Did(Return(FALSE), << >>)
    ELSE Sent(request(path, METH_PUT, Some(body), resp))

\* lines 88-112
state_set(power_on, switch_lock, brightness, f, dresp, resp) ==
    Gate(features_(f, dresp), "has_state",
         Raise("UnsupportedError", "Setting state is not supported with this device"),
         Put("api/v1/state",
             DictOf([power_on |-> power_on, switch_lock |-> switch_lock,
                     brightness |-> brightness]),
             resp))

-----------------------------------------------------------------------------
(* homewizard_energy.py: system, identify *)

\* line 117, for what request() did
SystemOf(r) == Did(FromDictOf(r.outcome, Return(SystemFromDict(DictIn(r.outcome)))), r.sent)

\* lines 114-117
system(resp) == Ungated(SystemOf(request("api/v1/system", METH_GET, None, resp)))

\* lines 119-137
system_set(cloud_enabled, f, dresp, resp) ==
    Gate(features_(f, dresp), "has_system",
         Raise("UnsupportedError", "Setting system is not supported with this device"),
         Put("api/v1/system", DictOf([cloud_enabled |-> cloud_enabled]), resp))

\* lines 139-148
identify(f, dresp, resp) ==
    Gate(features_(f, dresp), "has_identify",
         Raise("UnsupportedError", "Identify is not supported"),
         Sent(request("api/v1/identify", METH_PUT, None, resp)))

-----------------------------------------------------------------------------
(* homewizard_energy.py: decryption *)

\* line 153, for what request() did
DecryptionOf(r) ==
    Did(FromDictOf(r.outcome, Return(DecryptionFromDict(DictIn(r.outcome)))), r.sent)

\* lines 150-153
decryption(resp) ==
    Ungated(DecryptionOf(request("api/v1/decryption", METH_GET, None, resp)))

\* AllHex accepting lower-case digits only
AllHexLower(s) ==
    \A i \in 1..Len(s) : s[i] \in HexDigits \ {"A", "B", "C", "D", "E", "F"}

\* lines 171, 185: all(c in string.hexdigits for c in s)
AllHex(s) == \A i \in 1..Len(s) : s[i] \in HexDigits

\* lines 168-176: the error of a key that is given, None when it passes
KeyError(key) ==
    IF Len(key) # KeyLen
    THEN Some(Raise("ValueError", "Key length should be 32 characters long"))
    ELSE IF ~AllHex(key)
    THEN Some(Raise("ValueError", "Key should only contain hexadecimal characters (0-9/a-f)"))
    ELSE None

\* AadHint giving the hint for an aad of any length
AadHintAlways(aad) == Some("Hint: Try prefixing AAD with '30', e.g. '30<AAD>'")

\* lines 181-183
AadHint(aad) ==
    IF Len(aad) = AadHintLen
    THEN Some("Hint: Try prefixing AAD with '30', e.g. '30<AAD>'")
    ELSE None

\* lines 178-190: the error of an aad that is given, None when it passes
AadError(aad) ==
    IF Len(aad) # AadLen
    THEN Some(RaiseWith("ValueError", "AAD length should be 34 characters long", AadHint(aad)))
    ELSE IF ~AllHex(aad)
    THEN Some(RaiseWith("ValueError", "AAD should only contain hexadecimal characters (0-9/a-f)",
                        None))
    ELSE None

\* lines 168-197: the key is checked, then the aad, then the dict is sent
Validated(key, aad, resp) ==
    IF key # None /\ KeyError(key[1]) # None THEN Did(KeyError(key[1])[1], << >>)
    ELSE IF aad # None /\ AadError(aad[1]) # None THEN Did(AadError(aad[1])[1], << >>)
    ELSE Put("api/v1/decryption", DictOf([key |-> key, aad |-> aad]), resp)

\* decryption_set validating key and aad before it looks at the capability
decryption_set_validating(key, aad, f, dresp, resp) ==
    IF Validated(key, aad, resp).sent = << >>
    THEN Step(Validated(key, aad, resp).outcome, << >>, f)
    ELSE Gate(features_(f, dresp), "has_decryption",
              Raise("UnsupportedError", "Setting decryption is not supported with this device"),
              Validated(key, aad, resp))

\* lines 155-197
decryption_set(key, aad, f, dresp, resp) ==
    Gate(features_(f, dresp), "has_decryption",
         Raise("UnsupportedError", "Setting decryption is not supported with this device"),
         Validated(key, aad, resp))

\* decryption_reset sending nothing when neither key nor aad is to be cleared
decryption_reset_gated(key, aad, f, dresp, resp) ==
    Gate(features_(f, dresp), "has_decryption",
         Raise("UnsupportedError", "Setting decryption is not supported with this device"),
         IF ~key /\ ~aad THEN Did(Return(FALSE), << >>)
         ELSE Sent(request("api/v1/decryption", METH_DELETE,
                           Some([key |-> key, aad |-> aad]), resp)))

\* lines 199-217; key and aad are booleans
decryption_reset(key, aad, f, dresp, resp) ==
    Gate(features_(f, dresp), "has_decryption",
         Raise("UnsupportedError", "Setting decryption is not supported with this device"),
         Sent(request("api/v1/decryption", METH_DELETE,
                      Some([key |-> key, aad |-> aad]), resp)))

\* ShouldClose without the test of the flag: any session held is closed
ShouldCloseAny == session # "none"

\* line 269: whether close() closes the session
ShouldClose == session # "none" /\ close_session

-----------------------------------------------------------------------------
(* The inputs of the calls *)

OptBool == {None, Some(TRUE), Some(FALSE)}

Brightness == {None, Some(0), Some(255)}

HexSample == <<"0", "9", "a", "F">>

\* a str of n hexadecimal digits, upper and lower case
HexStr(n) == [i \in 1..n |-> HexSample[(i % 4) + 1]]

\* the same with its last character replaced by one that is no hexadecimal digit
NonHexStr(n) == [i \in 1..n |-> IF i = n THEN "g" ELSE HexSample[(i % 4) + 1]]

\* the lengths tried: the empty str, and around the two lengths asked for
Lengths == {0, KeyLen - 1, KeyLen, KeyLen + 1, AadLen, AadLen + 1}

\* the values of key and of aad
Strings ==
    {None} \cup {Some(HexStr(n)) : n \in Lengths}
           \cup {Some(NonHexStr(n)) : n \in {KeyLen, AadLen}}

\* yyMMddHHmmss values a payload may hold
Timestamps ==
    {JStr(<<"2", "1", "0", "3", "1", "4", "1", "2", "3", "4", "5", "6">>),
     JInt(<<"2", "4", "0", "2", "2", "9", "2", "3", "5", "9", "5", "9">>),
     JStr(<<"7", "0", "0", "1", "0", "1", "0", "0", "0", "0", "0", "0">>),
     JStr(<<"2", "3", "0", "2", "2", "9", "0", "0", "0", "0", "0", "0">>),
     JStr(<<"2", "1", "1", "3", "0", "1", "0", "0", "0", "0", "0", "0">>),
     JStr(<<"2", "1", "0", "3", "1", "4", "1", "2", "3", "4", "6", "0">>),
     JStr(<<"2", "1", "0", "3", "1", "4", "2", "4", "3", "4", "5", "6">>),
     JStr(<<"2", "1", "0", "3", "1", "4", "1", "2", "3", "4", "5">>),
     JStr(<<"2", "1", "0", "3", " ", "4", "1", "2", "3", "4", "5", "6">>),
     JStr(<<"2", "1", "0", "3", "1", "4", "1", "2", "3", "4", "5", "x">>),
     JStr(<<"U+0662", "U+0661", "0", "3", "1", "4", "1", "2", "3", "4", "5", "6">>),
     JStr(<<"2", "1", "0", "3", "1", "U+0664", "1", "2", "3", "4", "U+FF15", "6">>),
     JStr(<<"2", "1", "0", "3", "1", "4", "1", "2", "3", "4", "U+0665", "U+0666">>),
     JStr(<<"a", "b", "c">>),
     JStr(<< >>)}

GoodTimestamp == JStr(<<"2", "1", "0", "3", "1", "4", "1", "2", "3", "4", "5", "6">>)

BadTimestamp == JStr(<<"a", "b", "c">>)

\* entries of the "external" list of a data payload
ExternalEntries ==
    {[unique_id |-> Some("G001"), type |-> Some(JText("gas_meter")), value |-> Some(111),
      unit |-> Some("m3"), timestamp |-> Some(GoodTimestamp)],
     [unique_id |-> Some("W001"), type |-> Some(JText("water_meter")),
      timestamp |-> Some(BadTimestamp)],
     [unique_id |-> Some("X001"), type |-> Some(JText("solar_meter")), timestamp |-> None],
     [unique_id |-> Some("L001"), type |-> Some(JList)],
     EmptyDict}

\* the lists of at most n entries
RECURSIVE ExternalLists(_)
ExternalLists(n) ==
    IF n = 0 THEN {<< >>}
    ELSE ExternalLists(n - 1)
            \cup {<<e>> \o l : e \in ExternalEntries, l \in ExternalLists(n - 1)}

\* marks a key that the payload does not hold
Absent == <<"absent", "absent">>

\* the dict of the keys of d that are not marked absent
Present(d) == [k \in {x \in DOMAIN d : Len(d[x]) <= 1} |-> d[k]]

\* bodies the device may answer GET api/v1/data with: every timestamp value in
\* gas_timestamp, good and bad values in both timestamps, every external list
DataPayloads ==
    {Present([wifi_ssid |-> Some("lan"), gas_timestamp |-> g,
              montly_power_peak_timestamp |-> Absent, external |-> Absent]) :
        g \in {Absent, None} \cup {Some(t) : t \in Timestamps}}
    \cup
    {Present([unique_id |-> Some("M001"), gas_timestamp |-> g,
              montly_power_peak_timestamp |-> m, external |-> Some(<< >>)]) :
        g \in {Absent, Some(GoodTimestamp)},
        m \in {Absent, None, Some(GoodTimestamp), Some(BadTimestamp)}}
    \cup
    {Present([total_gas_m3 |-> Some(7), gas_timestamp |-> Absent,
              montly_power_peak_timestamp |-> Absent, external |-> x]) :
        x \in {None} \cup {Some(l) : l \in ExternalLists(MaxExternal)}}

StatePayloads ==
    {EmptyDict,
     [power_on |-> Some(TRUE), switch_lock |-> Some(FALSE), brightness |-> Some(255)],
     [power_on |-> None, brightness |-> Some(0)]}

SystemPayloads == {EmptyDict, [cloud_enabled |-> Some(TRUE)]}

DecryptionPayloads == {EmptyDict, [key |-> Some(TRUE), aad |-> Some(FALSE)]}

\* the answers to the device fetch of line 56, an input where that line can run
LazyFetchResponses == IF FeaturesIsNone THEN Responses(DevicePayloads) ELSE {RespTimeout}

\* the answers to a PUT or DELETE, whose body the client ignores
WriteResponses == Responses({EmptyDict})

\* the paths with which request() is called directly: the one of device(), the
\* one of state_set() and one that no operation of the client has
RequestPaths == {"api", "api/v1/state", "api/v1/telegram"}

\* the methods and bodies of such a call; GET and None are the defaults of line 220
RequestMethods == {METH_GET, METH_PUT}

RequestBodies == {None, Some([power_on |-> TRUE])}

\* the JSON bodies that answer such a call
RequestPayloads ==
    {EmptyDict,
     [product_type |-> Some("HWE-SKT"), firmware_version |-> Some("3.01"),
      api_version |-> Some("v1")]}

\* the answers that arrive for the call op
ResponsesOf(op) ==
    CASE op = "device" -> Responses(DevicePayloads)
      [] op = "request" -> Responses(RequestPayloads)
      [] op = "data" -> Responses(DataPayloads)
      [] op = "state" -> Responses(StatePayloads)
      [] op = "system" -> Responses(SystemPayloads)
      [] op = "decryption" -> Responses(DecryptionPayloads)
      [] OTHER -> WriteResponses

\* the calls that await features() and need a capability
GatedWrites == {"state_set", "system_set", "identify", "decryption_set", "decryption_reset"}

GatedOps == GatedWrites \cup {"state"}

\* the call op with arguments args on a client whose self._features is f
Op(op, args, f, dresp, resp) ==
    CASE op = "device" -> device(resp)
      [] op = "request" -> Ungated(request(args.path, args.method, args.data, resp))
      [] op = "data" -> data(resp)
      [] op = "state" -> state(f, dresp, resp)
      [] op = "state_set" ->
            state_set(args.power_on, args.switch_lock, args.brightness, f, dresp, resp)
      [] op = "system" -> system(resp)
      [] op = "system_set" -> system_set(args.cloud_enabled, f, dresp, resp)
      [] op = "identify" -> identify(f, dresp, resp)
      [] op = "decryption" -> decryption(resp)
      [] op = "decryption_set" -> decryption_set(args.key, args.aad, f, dresp, resp)
      [] OTHER -> decryption_reset(args.key, args.aad, f, dresp, resp)

-----------------------------------------------------------------------------
(* The client as a state machine.  A coroutine of the client gives way to    *)
(* the event loop where it awaits the network only: at the await of          *)
(* self._session.request (line 234) and at the awaits that read the body of  *)
(* the answer (lines 240, 262, 264).  Lines 219-233 before it, which create  *)
(* the session, and the lines after it run without giving way.  A call that  *)
(* reaches request() is therefore two steps: one up to line 234, and one     *)
(* from the answer, once read, to the end of the call; a call that does not  *)
(* reach request() is one step.  Spec follows one caller through every       *)
(* operation; between the two steps of its call, other tasks call close(),   *)
(* __aexit__ and features().                                                 *)

\* the outcome of a call that has not ended
Pending == [kind |-> "pending"]

\* the record of a call that ended; pre is self._features when it began
Call(op, args, pre, resp, st) ==
    [op |-> op, args |-> args,
     resp |-> IF st.sent = << >> THEN None ELSE Some(resp),
     outcome |-> st.outcome, sent |-> st.sent, pre |-> pre, closed |-> FALSE]

\* the record of a call that awaits the answer to what it sent
Awaiting(op, args, sent) ==
    [op |-> op, args |-> args, resp |-> None, outcome |-> Pending, sent |-> sent,
     pre |-> features, closed |-> FALSE]

\* the tasks that may call the client at the same time
Tasks == 1..MaxTasks

\* a task that is not in a call
Idle == [phase |-> "idle"]

\* a task whose call c awaits self._session.request (line 234); pre is
\* self._features when the call began
InFlight(c, pre) == [phase |-> "inflight", op |-> c.op, args |-> c.args, pre |-> pre]

\* the tasks other than i whose calls are in flight
Others(i) == {j \in DOMAIN calls \ {i} : calls[j].phase = "inflight"}

\* the record of the call c of task i that ended; beside are, for a call
\* whose deadline expired, the tasks whose calls were in flight then
Done(i, c, resp, st, beside) ==
    [task |-> i, op |-> c.op, args |-> c.args,
     resp |-> IF st.sent = << >> THEN None ELSE Some(resp),
     outcome |-> st.outcome, sent |-> st.sent, pre |-> c.pre, closed |-> FALSE,
     beside |-> beside]

\* a call from its first line to the await of line 234.  st is what the call
\* does when no answer comes, which tells whether it reaches request(), and
\* refused what it does on a closed session.  A call that does not reach
\* request() ends here; so does one that the closed session refuses, since
\* aiohttp raises before it awaits; any other creates the session if there is
\* none (lines 223-225) and awaits.
Start(op, args, st, refused) ==
    /\ pending = None
    /\ IF st.sent = << >>
       THEN /\ last' = Call(op, args, features, RespTimeout, st)
            /\ UNCHANGED <<session, close_session, pending>>
       ELSE IF session # "none" /\ session_closed
       THEN /\ last' = Call(op, args, features, RespClosed, refused)
            /\ UNCHANGED <<session, close_session, pending>>
       ELSE /\ last' = Awaiting(op, args, st.sent)
            /\ pending' = Some([op |-> op, args |-> args, pre |-> features])
            /\ session' = SessionAfter(st.sent)
            /\ close_session' = CloseSessionAfter(st.sent)
    /\ UNCHANGED <<features, session_closed, calls>>

\* the call p from the answer resp to its end, where it did st: device()
\* assigns self._features (line 65), no other call does
End(p, resp, st) ==
    /\ last' = Call(p.op, p.args, p.pre, resp, st)
    /\ features' = IF p.op \in GatedOps THEN features ELSE st.features
    /\ pending' = None
    /\ UNCHANGED <<session, close_session, session_closed, calls>>

\* lines 29-41; the class attributes of lines 24 and 27
Init ==
    /\ session \in {"none", "supplied"}
    /\ close_session = FALSE
    /\ session_closed = FALSE
    /\ features = None
    /\ pending = None
    /\ calls = [i \in Tasks |-> Idle]
    /\ last = [op |-> "__init__", args |-> [clientsession |-> session], resp |-> None,
               outcome |-> Return(None), sent |-> << >>, pre |-> None, closed |-> FALSE]

DeviceCall == Start("device", EmptyDict, device(RespTimeout), device(RespClosed))

DataCall == Start("data", EmptyDict, data(RespTimeout), data(RespClosed))

StateCall ==
    \E dresp \in LazyFetchResponses :
        Start("state", EmptyDict, state(features, dresp, RespTimeout),
              state(features, dresp, RespClosed))

StateSetCall ==
    \E power_on \in OptBool, switch_lock \in OptBool, brightness \in Brightness,
       dresp \in LazyFetchResponses :
        Start("state_set",
              [power_on |-> power_on, switch_lock |-> switch_lock, brightness |-> brightness],
              state_set(power_on, switch_lock, brightness, features, dresp, RespTimeout),
              state_set(power_on, switch_lock, brightness, features, dresp, RespClosed))

SystemCall == Start("system", EmptyDict, system(RespTimeout), system(RespClosed))

SystemSetCall ==
    \E cloud_enabled \in OptBool, dresp \in LazyFetchResponses :
        Start("system_set", [cloud_enabled |-> cloud_enabled],
              system_set(cloud_enabled, features, dresp, RespTimeout),
              system_set(cloud_enabled, features, dresp, RespClosed))

IdentifyCall ==
    \E dresp \in LazyFetchResponses :
        Start("identify", EmptyDict, identify(features, dresp, RespTimeout),
              identify(features, dresp, RespClosed))

DecryptionCall ==
    Start("decryption", EmptyDict, decryption(RespTimeout), decryption(RespClosed))

DecryptionSetCall ==
    \E key \in Strings, aad \in Strings, dresp \in LazyFetchResponses :
        Start("decryption_set", [key |-> key, aad |-> aad],
              decryption_set(key, aad, features, dresp, RespTimeout),
              decryption_set(key, aad, features, dresp, RespClosed))

DecryptionResetCall ==
    \E key \in BOOLEAN, aad \in BOOLEAN, dresp \in LazyFetchResponses :
        Start("decryption_reset", [key |-> key, aad |-> aad],
              decryption_reset(key, aad, features, dresp, RespTimeout),
              decryption_reset(key, aad, features, dresp, RespClosed))

\* lines 219-264: request() called by the caller itself, with any path, method
\* and body; it returns what the answer holds and leaves self._features alone
RequestCall ==
    \E path \in RequestPaths, method \in RequestMethods, body \in RequestBodies :
        Start("request", [path |-> path, method |-> method, data |-> body],
              Ungated(request(path, method, body, RespTimeout)),
              Ungated(request(path, method, body, RespClosed)))

\* lines 234-264 and the lines of the operation after request(): the answer to
\* the suspended call arrives, or its deadline expires (lines 241-244)
AnswerCall ==
    /\ pending # None
    /\ \E resp \in ResponsesOf(pending[1].op), dresp \in LazyFetchResponses :
          End(pending[1], resp,
              Op(pending[1].op, pending[1].args, pending[1].pre, dresp, resp))

\* lines 53-58: features() called by a task of its own; it returns
\* self._features without awaiting the network
FeaturesCall ==
    /\ \E dresp \in LazyFetchResponses :
          last' = [op |-> "features", args |-> EmptyDict, resp |-> None,
                   outcome |-> features_(features, dresp).outcome, sent |-> << >>,
                   pre |-> features, closed |-> FALSE]
    /\ UNCHANGED <<session, close_session, session_closed, features, pending, calls>>

\* lines 266-270, which may run while a call awaits its answer; the session
\* is closed when close() first gives way (line 270)
close(op) ==
    /\ session_closed' = (ShouldClose \/ session_closed)
    /\ last' = [op |-> op, args |-> EmptyDict, resp |-> None,
                outcome |-> Return(None), sent |-> << >>, pre |-> features,
                closed |-> ShouldClose]
    /\ UNCHANGED <<session, close_session, features, pending, calls>>

CloseCall == close("close")

\* lines 280-286
AExit == close("__aexit__")

Next ==
    \/ DeviceCall
    \/ DataCall
    \/ StateCall
    \/ StateSetCall
    \/ SystemCall
    \/ SystemSetCall
    \/ IdentifyCall
    \/ DecryptionCall
    \/ DecryptionSetCall
    \/ DecryptionResetCall
    \/ RequestCall
    \/ AnswerCall
    \/ FeaturesCall
    \/ CloseCall
    \/ AExit

Spec == Init /\ [][Next]_vars

-----------------------------------------------------------------------------
(* The client called by several tasks at once.  Each task is in one call at  *)
(* most; a call is one step up to the await of line 234, inside the timeout  *)
(* context of line 233, and one step from the answer, or from the expiry of  *)
(* its deadline, to its end.  A task begins any call while the calls of      *)
(* other tasks await.  `last` is the call that ended last.                   *)

\* the calls that the tasks make: two reads, two capability-gated writes, and
\* request() itself
ConcurrentCalls ==
    {[op |-> "device", args |-> EmptyDict],
     [op |-> "data", args |-> EmptyDict],
     [op |-> "system", args |-> EmptyDict],
     [op |-> "identify", args |-> EmptyDict],
     [op |-> "state_set",
      args |-> [power_on |-> Some(TRUE), switch_lock |-> None, brightness |-> None]],
     [op |-> "request", args |-> [path |-> "api", method |-> METH_GET, data |-> None]]}

\* the call c, begun on a client whose self._features was pre, answered by resp
OpDid(c, pre, resp) == Op(c.op, c.args, pre, RespTimeout, resp)

\* the answers that arrive for a call in flight (the deadline is Expire)
ArrivingResponses(op) ==
    {Http(403, TRUE, EmptyDict)}
        \cup {Http(200, TRUE, b) :
                 b \in CASE op \in {"device", "request"} ->
                            {[product_type |-> Some("HWE-SKT"), firmware_version |-> Some("3.01"),
                              api_version |-> Some("v1")]}
                        [] op = "data" -> {[gas_timestamp |-> Some(BadTimestamp)]}
                        [] op = "system" -> {[cloud_enabled |-> Some(TRUE)]}
                        [] OTHER -> {EmptyDict}}

\* Cancelled with one deadline for the client: every call in flight is cancelled
CancelledAll(i) == {j \in Tasks : calls[j].phase = "inflight"}

\* lines 232-233: the tasks that the expiry of the deadline of task i cancels.
\* Each request() enters a timeout context of its own, which cancels the task
\* that entered it.
Cancelled(i) == {i}

\* lines 219-234: task i, which is in no call, begins the call c.  st is what
\* the call does when no answer comes and refused what it does on a closed
\* session: a call that does not reach request() ends here, and so does one
\* that the closed session refuses; any other creates the session if there is
\* none and awaits the answer.
Begin(i, c, st, refused) ==
    /\ calls[i].phase = "idle"
    /\ IF st.sent = << >>
       THEN /\ last' = Done(i, InFlight(c, features), RespTimeout, st, {})
            /\ UNCHANGED <<session, close_session, calls>>
       ELSE IF session # "none" /\ session_closed
       THEN /\ last' = Done(i, InFlight(c, features), RespClosed, refused, {})
            /\ UNCHANGED <<session, close_session, calls>>
       ELSE /\ calls' = [calls EXCEPT ![i] = InFlight(c, features)]
            /\ session' = SessionAfter(st.sent)
            /\ close_session' = CloseSessionAfter(st.sent)
            /\ UNCHANGED last
    /\ UNCHANGED <<session_closed, features, pending>>

\* lines 245-264 and the lines of the operation after request(): the answer
\* resp to the call of task i arrives, and the call does st
Complete(i, resp, st) ==
    /\ calls[i].phase = "inflight"
    /\ calls' = [calls EXCEPT ![i] = Idle]
    /\ last' = Done(i, calls[i], resp, st, {})
    /\ features' = IF calls[i].op \in GatedOps THEN features ELSE st.features
    /\ UNCHANGED <<session, close_session, session_closed, pending>>

\* lines 241-244: the deadline of the call of task i expires, and the call does st
Expire(i, st) ==
    /\ calls[i].phase = "inflight"
    /\ calls' = [j \in Tasks |-> IF j \in Cancelled(i) THEN Idle ELSE calls[j]]
    /\ last' = Done(i, calls[i], RespTimeout, st, Others(i))
    /\ UNCHANGED <<session, close_session, session_closed, features, pending>>

BeginCall ==
    \E i \in Tasks, c \in ConcurrentCalls :
        Begin(i, c, OpDid(c, features, RespTimeout), OpDid(c, features, RespClosed))

CompleteCall ==
    \E i \in Tasks :
        /\ calls[i].phase = "inflight"
        /\ \E resp \in ArrivingResponses(calls[i].op) :
              Complete(i, resp, OpDid(calls[i], calls[i].pre, resp))

ExpireCall ==
    \E i \in Tasks :
        /\ calls[i].phase = "inflight"
        /\ Expire(i, OpDid(calls[i], calls[i].pre, RespTimeout))

NextConcurrent ==
    \/ BeginCall
    \/ CompleteCall
    \/ ExpireCall
    \/ FeaturesCall
    \/ CloseCall

Concurrent == Init /\ [][NextConcurrent]_vars

-----------------------------------------------------------------------------
(* Properties.  Each is a predicate on the last call: `last.pre` is the       *)
(* FeatureSet the client held when the call began, `last.sent` the calls the  *)
(* call made on the session, `last.resp` the answer it got.  A call that     *)
(* awaits its answer has the outcome Pending and no answer yet.               *)

\* the capability an operation requires
Needs(op) ==
    CASE op \in {"state", "state_set"} -> "has_state"
      [] op = "system_set" -> "has_system"
      [] op = "identify" -> "has_identify"
      [] OTHER -> "has_decryption"

Resolved == last.pre # None

\* the last call was op on a client whose resolved FeatureSet has / lacks what op needs
Capable(op) == last.op = op /\ Resolved /\ last.pre[1][Needs(op)]

Incapable(op) == last.op = op /\ Resolved /\ ~last.pre[1][Needs(op)]

Returned(v) == last.outcome.kind = "return" /\ last.outcome.value = v

\* the last call got HTTP status 200 with a JSON body
GotJson == last.resp # None /\ last.resp[1].t = "http"
              /\ last.resp[1].status = 200 /\ last.resp[1].json

\* C1: a capability-gated write on a client whose resolved FeatureSet lacks the
\* capability fails with UnsupportedError and makes no HTTP call, whatever its
\* arguments.
C1_UnsupportedNoRequest ==
    \A op \in GatedWrites :
        Incapable(op) => Raises(last.outcome, "UnsupportedError") /\ last.sent = << >>

C1_Witness ==
    /\ Incapable("state_set")
    /\ last.args.power_on = Some(TRUE)
    /\ Raises(last.outcome, "UnsupportedError")
    /\ last.sent = << >>

\* C2: a capability-gated operation on a client whose FeatureSet is not yet
\* resolved first fetches the device (GET api) and never evaluates a capability
\* against an absent FeatureSet.
C2_FetchesDeviceFirst ==
    (last.op \in GatedOps /\ ~Resolved) =>
        /\ Len(last.sent) >= 1
        /\ last.sent[1].method = METH_GET
        /\ last.sent[1].path = "api"
        /\ ~Raises(last.outcome, "AttributeError")

\* the arguments of a state_set or system_set call that are given
Given(args) == {a \in DOMAIN args : args[a] # None}

\* C3: on a capable device, state_set and system_set called with every field
\* absent return False -- the no-fields result, which no other call of them
\* gives -- and make no HTTP call.
C3_NoFieldsNoRequest ==
    \A op \in {"state_set", "system_set"} :
        Capable(op) =>
            /\ Given(last.args) = {} => Returned(FALSE) /\ last.sent = << >>
            /\ Given(last.args) # {} => ~Returned(FALSE) /\ Len(last.sent) = 1

C3_Witness ==
    /\ Capable("state_set")
    /\ Given(last.args) = {}
    /\ Returned(FALSE)
    /\ last.sent = << >>

\* what the specification asks of key and aad: n characters of 0-9a-fA-F
IsHexOfLength(s, n) ==
    /\ Len(s) = n
    /\ \A i \in 1..Len(s) :
          \/ IsAsciiDigit(s[i])
          \/ s[i] \in {"a", "b", "c", "d", "e", "f"}
          \/ s[i] \in {"A", "B", "C", "D", "E", "F"}

\* key and aad are acceptable: one at least is given, and what is given is well formed
Acceptable(args) ==
    /\ args.key # None \/ args.aad # None
    /\ args.key # None => IsHexOfLength(args.key[1], 32)
    /\ args.aad # None => IsHexOfLength(args.aad[1], 34)

\* the one PUT of decryption_set, with the values given unchanged
PutOf(args) ==
    << HttpCall(METH_PUT, "api/v1/decryption",
                Some([k \in Given(args) |-> args[k][1]])) >>

\* C4 as claimed: on a device with hasDecryption, decryption_set issues the PUT
\* with the given values if and only if key and aad are acceptable, and in every
\* other case fails with an invalid-argument error (ValueError) and no HTTP call.
C4_Original ==
    Capable("decryption_set") =>
        IF Acceptable(last.args)
        THEN last.sent = PutOf(last.args)
        ELSE Raises(last.outcome, "ValueError") /\ last.sent = << >>

\* C4 amended: as claimed, but with key and aad both absent the call does not
\* raise: it returns False (and makes no HTTP call).
C4_PutIffAcceptable ==
    Capable("decryption_set") =>
        IF Acceptable(last.args)
        THEN last.sent = PutOf(last.args)
        ELSE /\ last.sent = << >>
             /\ IF Given(last.args) = {} THEN Returned(FALSE)
                ELSE Raises(last.outcome, "ValueError")

C4_Witness ==
    /\ Capable("decryption_set")
    /\ last.args.key = Some(HexStr(32))
    /\ last.args.aad = Some(HexStr(34))
    /\ last.sent = << HttpCall(METH_PUT, "api/v1/decryption",
                               Some([key |-> HexStr(32), aad |-> HexStr(34)])) >>
    /\ Returned(TRUE)

\* the last call got an HTTP status
GotStatus == last.resp # None /\ last.resp[1].t = "http"

\* C5: an answer with status 403 surfaces DisabledError, an answer with any other
\* status but 200 surfaces RequestError carrying that status, and neither is
\* reported for the other.
C5_StatusClassified ==
    /\ GotStatus =>
          /\ last.resp[1].status = 403 => Raises(last.outcome, "DisabledError")
          /\ last.resp[1].status \notin {200, 403} =>
                /\ Raises(last.outcome, "RequestError")
                /\ last.outcome.msg = "API request error"
                /\ last.outcome.info = Some(last.resp[1].status)
    /\ Raises(last.outcome, "DisabledError") => GotStatus /\ last.resp[1].status = 403

C5_Witness ==
    /\ last.op = "data"
    /\ GotStatus
    /\ last.resp[1].status = 500
    /\ Raises(last.outcome, "RequestError")
    /\ last.outcome.info = Some(500)

\* C6: a request whose deadline expires surfaces a failure whose kind differs from
\* the kind surfaced for a connection-level fault.
C6_TimeoutKindDistinct ==
    (last.resp # None /\ last.resp[1].t = "timeout") =>
        /\ IsRaise(last.outcome)
        /\ last.outcome.exc # TransportError.exc

\* C7: device(), answered with status 200 and a JSON body, fails with
\* UnsupportedError whenever the body's api_version is not the supported version,
\* a missing api_version included, and returns the Device when it is.
C7_ApiVersionChecked ==
    (last.op = "device" /\ GotJson) =>
        IF Get(last.resp[1].body, "api_version") = Some(SUPPORTED_API_VERSION)
        THEN Returned(DeviceFromDict(last.resp[1].body))
        ELSE Raises(last.outcome, "UnsupportedError")

C7_Witness ==
    /\ last.op = "device"
    /\ GotJson
    /\ "api_version" \notin DOMAIN last.resp[1].body
    /\ Raises(last.outcome, "UnsupportedError")

\* C8: state() on a device without hasState returns None and makes no HTTP call;
\* on a device with hasState it makes exactly one call, GET api/v1/state, and
\* returns the State decoded from the JSON body of a 200 answer.
C8_StateNotApplicable ==
    /\ Incapable("state") => Returned(None) /\ last.sent = << >>
    /\ Capable("state") =>
          /\ last.sent = << HttpCall(METH_GET, "api/v1/state", None) >>
          /\ GotJson => Returned(StateFromDict(last.resp[1].body))

C8_Witness ==
    /\ Incapable("state")
    /\ Returned(None)
    /\ last.sent = << >>

\* C9: close() and __aexit__ close the session exactly when the client created it;
\* a session supplied at construction is never closed by the client.
C9_ClosesOwnSessionOnly ==
    /\ last.op \in {"close", "__aexit__"} =>
          /\ last.closed <=> session = "created"
          /\ session = "created" => session_closed
    /\ session = "supplied" => ~session_closed

C9_Witness ==
    /\ last.op = "close"
    /\ session = "created"
    /\ last.closed
    /\ session_closed

\* the two digits of s at p and p + 1 make a number between lo and hi
Between(s, p, lo, hi) == 10 * DigitVal(s[p]) + DigitVal(s[p + 1]) \in lo..hi

\* v holds a well-formed yyMMddHHmmss value
WellFormed(v) ==
    /\ v # None
    /\ Len(v[1].chars) = 12
    /\ \A i \in 1..12 : IsAsciiDigit(v[1].chars[i])
    /\ Between(v[1].chars, 3, 1, 12)
    /\ Between(v[1].chars, 5, 1, 31)
    /\ Between(v[1].chars, 7, 0, 23)
    /\ Between(v[1].chars, 9, 0, 59)
    /\ Between(v[1].chars, 11, 0, 59)

\* C10: decoding the yyMMddHHmmss timestamps never fails: the Data decode of a
\* JSON body returns a record, in which the timestamp of an absent or malformed
\* source value is None.
C10_TimestampsNeverFail ==
    (last.op = "data" /\ GotJson) =>
        /\ last.outcome.kind = "return"
        /\ \A k \in {"gas_timestamp", "montly_power_peak_timestamp"} :
              ~WellFormed(Get(last.resp[1].body, k)) => last.outcome.value[k] = None

\* the external-device entries that a data payload holds
EntriesOf(body) == IF Get(body, "external") = None THEN << >> ELSE body["external"][1]

\* C11: a Data record decoded from a JSON body holds in external_devices a
\* sequence, never None: one ExternalDevice for each entry of the payload, in the
\* payload's order, and the empty sequence for a payload without the "external"
\* key.
C11_ExternalDevicesNeverAbsent ==
    (last.op = "data" /\ GotJson /\ last.outcome.kind = "return") =>
        /\ last.outcome.value.external_devices # None
        /\ Len(last.outcome.value.external_devices[1]) = Len(EntriesOf(last.resp[1].body))
        /\ \A i \in 1..Len(EntriesOf(last.resp[1].body)) :
              last.outcome.value.external_devices[1][i].unique_id
                  = Get(EntriesOf(last.resp[1].body)[i], "unique_id")

\* the path of the endpoint of an operation, for request() the one it was given
OwnPath(op) ==
    CASE op = "device" -> "api"
      [] op = "data" -> "api/v1/data"
      [] op \in {"state", "state_set"} -> "api/v1/state"
      [] op \in {"system", "system_set"} -> "api/v1/system"
      [] op = "identify" -> "api/v1/identify"
      [] op \in {"decryption", "decryption_set", "decryption_reset"} -> "api/v1/decryption"
      [] op = "request" -> last.args.path
      [] OTHER -> ""

\* the calls of the last operation that went to path
CallsTo(path) == {i \in 1..Len(last.sent) : last.sent[i].path = path}

\* C12: no retry.  An operation calls the session at most once on its own path
\* (and at most once on any path), and exactly once when the call was answered,
\* whatever the answer: time-out, connection fault, 403, another status, 200.
C12_NoRetry ==
    /\ \A i \in 1..Len(last.sent) : Cardinality(CallsTo(last.sent[i].path)) = 1
    /\ Cardinality(CallsTo(OwnPath(last.op))) <= 1
    /\ last.resp # None => Cardinality(CallsTo(OwnPath(last.op))) = 1

C12_Witness ==
    /\ last.op = "data"
    /\ last.resp = Some(RespTimeout)
    /\ IsRaise(last.outcome)
    /\ last.sent = << HttpCall(METH_GET, "api/v1/data", None) >>

\* task i ended its call in this step
Ends(i) == calls[i].phase = "inflight" /\ calls'[i].phase = "idle"

\* C13: with several calls in flight on one client, the expiry of the deadline
\* of one call ends that call alone, with the time-out failure; every other call
\* stays in flight, and every call that ends has the outcome that its own answer
\* determines.
C13_TimeoutAbortsOnlyItsCall ==
    [][\A i \in Tasks :
          Ends(i) =>
             /\ last'.task = i
             /\ last'.outcome = OpDid(calls[i], calls[i].pre, last'.resp[1]).outcome
             /\ last'.resp = Some(RespTimeout) =>
                    /\ last'.outcome = TimeoutError
                    /\ \A j \in Tasks \ {i} : calls'[j] = calls[j]]_vars

\* the deadline of a call expired while identify() of another task was in
\* flight, which still is
C13_Witness ==
    /\ last.resp = Some(RespTimeout)
    /\ last.outcome = TimeoutError
    /\ calls[last.task].phase = "idle"
    /\ \E j \in last.beside :
          /\ calls[j].phase = "inflight"
          /\ calls[j].op = "identify"

\* C14: on a device with hasDecryption, decryption_reset(key, aad) makes exactly
\* one call, DELETE api/v1/decryption with the body {key, aad} holding the two
\* booleans as passed, for each of the four combinations: there is no gate on
\* the arguments.
C14_ResetAlwaysSends ==
    Capable("decryption_reset") =>
        last.sent = << HttpCall(METH_DELETE, "api/v1/decryption",
                                Some([key |-> last.args.key, aad |-> last.args.aad])) >>

C14_Witness ==
    /\ Capable("decryption_reset")
    /\ last.args = [key |-> FALSE, aad |-> FALSE]
    /\ last.sent = << HttpCall(METH_DELETE, "api/v1/decryption",
                               Some([key |-> FALSE, aad |-> FALSE])) >>
    /\ Returned(TRUE)

\* the last call was decryption_set, on a device with hasDecryption, with an aad
\* whose length is not 34
WrongLengthAad ==
    /\ Capable("decryption_set")
    /\ last.args.aad # None
    /\ Len(last.args.aad[1]) # 34

\* the error of the last call carries the hint about the prefix 30
CarriesHint ==
    /\ last.outcome.info # None
    /\ last.outcome.info[1] = "Hint: Try prefixing AAD with '30', e.g. '30<AAD>'"

\* C15 as claimed: decryption_set with an aad whose length is not 34 fails with a
\* length error, which carries the hint exactly when the aad has 32 characters.
C15_Original ==
    WrongLengthAad =>
        /\ Raises(last.outcome, "ValueError")
        /\ last.outcome.msg \in {"AAD length should be 34 characters long",
                                 "Key length should be 32 characters long"}
        /\ CarriesHint <=> Len(last.args.aad[1]) = 32

\* C15 amended: as claimed when the key is absent or well formed; the error is
\* then the one of the aad's length and no call is made.  (A key that is given
\* is validated first, and its error carries no hint.)
C15_HintIffLength32 ==
    (WrongLengthAad /\ (last.args.key = None \/ IsHexOfLength(last.args.key[1], 32))) =>
        /\ Raises(last.outcome, "ValueError")
        /\ last.outcome.msg = "AAD length should be 34 characters long"
        /\ CarriesHint <=> Len(last.args.aad[1]) = 32
        /\ last.sent = << >>

C15_Witness ==
    /\ WrongLengthAad
    /\ last.args.key = None
    /\ last.args.aad = Some(HexStr(32))
    /\ Raises(last.outcome, "ValueError")
    /\ CarriesHint

\* the meter kinds of the five recognized type names
MeterKinds ==
    [gas_meter |-> "GAS_METER", heat_meter |-> "HEAT_METER",
     warm_water_meter |-> "WARM_WATER_METER", water_meter |-> "WATER_METER",
     inlet_heat_meter |-> "INLET_HEAT_METER"]

\* the kind that the claim gives to the type value v of an entry
KindOf(v) ==
    IF v # None /\ v[1].type = "str" /\ v[1].text \in DOMAIN MeterKinds
    THEN MeterKinds[v[1].text]
    ELSE "UNKNOWN"

\* C16: the mapping from the type value of an external device to its meter kind
\* is total: no type value fails the decode, the five recognized names give
\* their own kinds, and every other value, a missing type included, gives
\* UNKNOWN.
C16_MeterKindTotal ==
    (last.op = "data" /\ GotJson) =>
        /\ ~Raises(last.outcome, "TypeError")
        /\ last.outcome.kind = "return" =>
              \A i \in 1..Len(EntriesOf(last.resp[1].body)) :
                  last.outcome.value.external_devices[1][i].meter_type
                      = KindOf(Get(EntriesOf(last.resp[1].body)[i], "type"))

\* C17: self._features changes only in a device() call that was answered with
\* status 200 and a JSON body; every other call, close() and a device() call
\* that fails in request() leave it as it was.
C17_FeaturesFrame ==
    [][features' # features => (last'.op = "device" /\ GotJson')]_vars

\* a device() call timed out on a client with resolved features, which it left
C17_Witness ==
    /\ last.op = "device"
    /\ last.resp = Some(RespTimeout)
    /\ last.pre # None
    /\ features = last.pre

\* the arguments of the last call do not pass the validation of op: no field is
\* given, or, for decryption_set, a key or an aad that is given is malformed
Invalid(op) ==
    \/ Given(last.args) = {}
    \/ op = "decryption_set" /\ ~Acceptable(last.args)

\* C18: in state_set, system_set and decryption_set the capability is checked
\* before the arguments: on a device without the capability a call with no
\* fields, or with a malformed key or aad, fails with UnsupportedError, not with
\* the no-fields result nor with ValueError.
C18_CapabilityBeforeValidation ==
    \A op \in {"state_set", "system_set", "decryption_set"} :
        (Incapable(op) /\ Invalid(op)) =>
            /\ Raises(last.outcome, "UnsupportedError")
            /\ ~Returned(FALSE)
            /\ ~Raises(last.outcome, "ValueError")

C18_Witness ==
    /\ Incapable("decryption_set")
    /\ last.args.key = Some(NonHexStr(32))
    /\ last.args.aad = Some(HexStr(32))
    /\ Raises(last.outcome, "UnsupportedError")

\* the last call was a device() that failed with the unsupported-version error
VersionRefused == last.op = "device" /\ Raises(last.outcome, "UnsupportedError")

\* C19: device() stores the Features of the fetched product type and firmware
\* version before it checks the API version: after a device() call that failed
\* with the unsupported-version error the client holds the Features of that
\* device, and a capability-gated write that follows is refused exactly when
\* they lack its capability.
C19_FeaturesStoredBeforeVersionCheck ==
    /\ [](VersionRefused =>
             features = Some(Features(Get(last.resp[1].body, "product_type"),
                                      Get(last.resp[1].body, "firmware_version"))))
    /\ [][(VersionRefused /\ features # None /\ last'.op \in GatedWrites) =>
             (Raises(last'.outcome, "UnsupportedError")
                 <=> ~features[1][Needs(last'.op)])]_vars

\* a device() call on a client without features failed on the version and left
\* the features of a switch
C19_Witness ==
    /\ VersionRefused
    /\ last.pre = None
    /\ "api_version" \in DOMAIN last.resp[1].body
    /\ features # None
    /\ features[1].has_state

\* C20: whatever the interleaving of requests and close() calls, the client
\* creates a session only when it holds none, so at most once and never when one
\* was supplied; a session that it holds is never replaced, closed or not; and
\* _close_session is true exactly when the client created the session.
C20_SessionCreatedAtMostOnce ==
    /\ [](close_session <=> session = "created")
    /\ [][/\ session # "none" => session' = session
          /\ session' # session => session' = "created"]_vars

\* the client created its session and closed it, and a later request was made
\* on that closed session
C20_Witness ==
    /\ session = "created"
    /\ close_session
    /\ session_closed
    /\ last.resp = Some(RespClosed)
    /\ Raises(last.outcome, "RuntimeError")

====
